---- MODULE Spec2Model ----
(***************************************************************************)
(* Model of src/DistanceIMTTrellis.py: the value collector                 *)
(* DistanceSigmaIMTTrellis.get_ground_motion_values and the two renderers  *)
(* DistanceIMTTrellis._build_plot / DistanceSigmaIMTTrellis._build_plot    *)
(* with their _set_labels.                                                 *)
(*                                                                         *)
(* The hazard library (GMPE evaluation, intensity-measure parser) and the  *)
(* charting surface are black boxes: each evaluation's outcome is chosen   *)
(* when the call is made and remembered, so that the same GMPE object      *)
(* asked the same question answers the same way.                           *)
(***************************************************************************)
EXTENDS Integers, Sequences, FiniteSets, TLC

(* ------------------------------ bounds --------------------------------- *)
MaxGsims == 2
MaxRctx == 2
MaxCalls == 2

(* ---------------------------- universes -------------------------------- *)
\* Strings the code inspects character by character are tuples of characters.
PGA == <<"P", "G", "A">>
SA02 == <<"S", "A", "(", "0", ".", "2", ")">>
XYZ == <<"X", "Y", "Z">>
IMTS == {PGA, SA02, XYZ}

\* GMPE objects; two distinct objects are instances of one class.
Gmpes == {1, 2, 3}
ClassName(g) == IF g = 2 THEN "B" ELSE "A"

SeqsUpTo(S, n) == UNION {[1..m -> S] : m \in 0..n}

\* Inputs handed to the constructor.
GsimLists == SeqsUpTo(Gmpes, MaxGsims)
ImtLists == {<<>>, <<PGA>>, <<SA02, XYZ>>}
RctxCounts == 0..MaxRctx
StdTypes == {"Total", "Inter event"}
PlotTypes == {"loglog", "semilogy", "linear"}
DistanceTypes == {"rjb", "ry0"}
DistArrays == {<<>>, <<1, 2>>, <<2, 1>>, <<1, 3, 2>>}
Classes == {"DistanceIMTTrellis", "DistanceSigmaIMTTrellis"}

(* --------------------------- module tables ----------------------------- *)
PLOT_UNITS ==
    (PGA :> "g") @@ (<<"P", "G", "V">> :> "cm/s") @@ (<<"S", "A">> :> "g")
    @@ (<<"I", "A">> :> "m/s") @@ (<<"C", "S", "V">> :> "g-sec")
    @@ (<<"R", "S", "D">> :> "s") @@ (<<"M", "M", "I">> :> "")

\* Mutant: a label map that also knows the ry0 metric.
DistanceLabelMapWithRy0 ==
    [k \in {"repi", "rhypo", "rjb", "rrup", "rx", "ry0"} |-> "Dist."]

DISTANCE_LABEL_MAP ==
    [k \in {"repi", "rhypo", "rjb", "rrup", "rx"} |->
        CASE k = "repi" -> "Epicentral Dist."
          [] k = "rhypo" -> "Hypocentral Dist."
          [] k = "rjb" -> "Joyner-Boore Dist."
          [] k = "rrup" -> "Rupture Dist."
          [] k = "rx" -> "Rx Dist."]

(* ------------------------------ state ---------------------------------- *)
VARIABLES
    gsims,          \* self.gsims: sequence of GMPE objects
    imts,           \* self.imts: sequence of intensity-measure strings
    nrctx,          \* len(self.rctx)
    nsites,         \* self.nsites
    stddevs,        \* self.stddevs
    dctx,           \* self.dctx: attribute name -> distance array
    distance_type,  \* self.distance_type
    plot_type,      \* self.plot_type
    gmvs,           \* the value table under construction / returned
    gi, ii, ri,     \* loop positions of get_ground_motion_values
    pc,             \* position of get_ground_motion_values
    exc,            \* exception that left get_ground_motion_values
    calls,          \* every evaluation attempted so far, in order
    cls,            \* class whose _build_plot is running / ran last
    i_m,            \* _build_plot argument
    ax,             \* the supplied axis
    labels, lines,  \* self.labels, self.lines
    bk,             \* loop position of _build_plot
    bpc,            \* position of _build_plot
    bexc,           \* exception that left _build_plot
    ncalls          \* number of _build_plot calls started

cvars == <<gmvs, gi, ii, ri, pc, exc, calls>>
fields == <<gsims, imts, nrctx, nsites, stddevs, dctx, distance_type, plot_type>>
pvars == <<cls, i_m, ax, labels, lines, bk, bpc, bexc, ncalls>>
vars == <<fields, cvars, pvars>>

NoExc == [type |-> "none", at |-> "none"]

(* ------------------- the external hazard library ----------------------- *)
ImtCode(im) == CASE im = PGA -> 0 [] im = SA02 -> 1 [] im = XYZ -> 2
KindCode(kind) == IF kind = "Total" THEN 1 ELSE 2

\* A value the library computes: one distinct positive number per
\* (statistic, GMPE object, intensity measure, rupture context, site).
LibValue(tag, g, im, k, j) == 1 + tag + 4 * (j + 8 * (k + 8 * (ImtCode(im) + 4 * g)))

\* gmpe.get_mean_and_stddevs(sctx, rct, dctx, imt, kinds) on success:
\* (mean array, one standard-deviation array per requested kind).
get_mean_and_stddevs(g, im, k, kinds) ==
    [mean |-> [j \in 1..nsites |-> LibValue(0, g, im, k, j)],
     sigmas |-> [n \in 1..Len(kinds) |->
                    [j \in 1..nsites |-> LibValue(KindCode(kinds[n]), g, im, k, j)]]]

\* Outcomes of imt.from_string and of the evaluation.
ParseOutcomes == {"ok", "KeyError", "ValueError"}
EvalOutcomes == {"ok", "KeyError", "RuntimeError"}

\* The library is deterministic: an outcome already observed is repeated.
ParseAllowed(im) ==
    IF \E n \in 1..Len(calls) : calls[n].imt = im
    THEN {calls[n].parse : n \in {m \in 1..Len(calls) : calls[m].imt = im}}
    ELSE ParseOutcomes

EvalAllowed(g, im, k) ==
    LET same == {n \in 1..Len(calls) :
                    /\ calls[n].gmpe = g /\ calls[n].imt = im
                    /\ calls[n].iloc = k /\ calls[n].eval # "none"}
    IN IF same # {} THEN {calls[n].eval : n \in same} ELSE EvalOutcomes

(* ---------------------- get_ground_motion_values ----------------------- *)
EmptyDict == <<>>
EmptyList == [kind |-> "list", rows |-> <<>>, ncols |-> 0]

\* np.zeros([nr, nc], dtype=float)
Zeros(nr, nc) == [kind |-> "ndarray", rows |-> [r \in 1..nr |-> [c \in 1..nc |-> 0]], ncols |-> nc]

\* d[key] = value on a dict
DictSet(d, key, value) == [x \in DOMAIN d \cup {key} |-> IF x = key THEN value ELSE d[x]]

\* Mutant: "except Exception:" instead of "except KeyError:".
HandledAny(e) == e \in {"KeyError", "ValueError", "RuntimeError"}

\* except KeyError:
Handled(e) == e = "KeyError"

\* _, sigmas = ...; sigmas[0]
StoredRow(result) == result.sigmas[1]

\* gmvs[name][i_m][iloc, :] = row
RowIndex(iloc) == iloc

SetRow(entry, iloc, row) == [entry EXCEPT !.rows[RowIndex(iloc)] = row]

\* for gmpe in self.gsims: gmvs.update([(name, {})])   ...   return gmvs
GmpeLoop ==
    /\ pc = "gmpe_loop"
    /\ IF gi < Len(gsims)
       THEN /\ gi' = gi + 1
            /\ gmvs' = DictSet(gmvs, ClassName(gsims[gi + 1]), EmptyDict)
            /\ ii' = 0
            /\ pc' = "imt_loop"
            /\ UNCHANGED ri
       ELSE \* return gmvs: the loop variables go out of scope
            /\ pc' = "returned"
            /\ gi' = 0 /\ ii' = 0 /\ ri' = 0
            /\ UNCHANGED gmvs
    /\ UNCHANGED <<exc, calls, fields, pvars>>

\* for i_m in self.imts: gmvs[name][i_m] = np.zeros([len(self.rctx), self.nsites])
ImtLoop ==
    /\ pc = "imt_loop"
    /\ IF ii < Len(imts)
       THEN LET name == ClassName(gsims[gi]) IN
            /\ ii' = ii + 1
            /\ gmvs' = DictSet(gmvs, name, DictSet(gmvs[name], imts[ii + 1], Zeros(nrctx, nsites)))
            /\ ri' = 0
            /\ pc' = "row_loop"
       ELSE /\ pc' = "gmpe_loop"
            /\ UNCHANGED <<ii, ri, gmvs>>
    /\ UNCHANGED <<gi, exc, calls, fields, pvars>>

\* for iloc, rct in enumerate(self.rctx): try: ... except KeyError: ... break
RowLoop ==
    /\ pc = "row_loop"
    /\ IF ri < nrctx
       THEN LET g == gsims[gi]
                name == ClassName(g)
                im == imts[ii]
                k == ri + 1
            IN \E po \in ParseAllowed(im) :
               \E eo \in (IF po = "ok" THEN EvalAllowed(g, im, k) ELSE {"none"}) :
                 LET raised == IF po # "ok" THEN po ELSE eo
                     where == IF po # "ok" THEN "from_string" ELSE "get_mean_and_stddevs"
                 IN /\ calls' = Append(calls, [gmpe |-> g, imt |-> im, iloc |-> k,
                                               gpos |-> gi, ipos |-> ii,
                                               parse |-> po, eval |-> eo])
                    /\ IF raised = "ok"
                       THEN /\ gmvs' = DictSet(gmvs, name, DictSet(gmvs[name], im,
                                          SetRow(gmvs[name][im], k,
                                                 StoredRow(get_mean_and_stddevs(g, im, k, <<stddevs>>)))))
                            /\ ri' = ri + 1
                            /\ UNCHANGED <<pc, exc>>
                       ELSE IF Handled(raised)
                       THEN /\ gmvs' = DictSet(gmvs, name, DictSet(gmvs[name], im, EmptyList))
                            /\ pc' = "imt_loop"
                            /\ UNCHANGED <<ri, exc>>
                       ELSE /\ pc' = "raised"
                            /\ exc' = [type |-> raised, at |-> where]
                            /\ UNCHANGED <<ri, gmvs>>
       ELSE /\ pc' = "imt_loop"
            /\ UNCHANGED <<ri, gmvs, exc, calls>>
    /\ UNCHANGED <<gi, ii, fields, pvars>>

NextGMV == GmpeLoop \/ ImtLoop \/ RowLoop

(* ------------------------------ _build_plot ---------------------------- *)
\* A fresh Axes object, as supplied by the caller.
NewAxes ==
    [lines |-> <<>>, grid |-> FALSE, xlim |-> <<>>, xlabel |-> <<>>, ylabel |-> <<>>,
     xscale |-> "linear", yscale |-> "linear"]

\* Mutant: the lists are not reset at the start of a call.
ResetListKeep(old) == old

\* self.labels = [] ; self.lines = []
ResetList(old) == <<>>

\* Mutant: the assertion written with != in place of ==, which accepts anything.
PlotTypeNeq(pt) == pt # "loglog" \/ pt # "semilogy"

\* assert (self.plot_type=="loglog") or (self.plot_type=="semilogy")
PlotTypeOK(pt) == pt = "loglog" \/ pt = "semilogy"

\* Mutant: the standard-deviation renderer draws as the mean renderer does.
DrawCallSame(c, pt) == IF pt = "semilogy" THEN "semilogy" ELSE "loglog"

\* The draw call each class makes for a plot_type that passed the assertion.
DrawCall(c, pt) ==
    IF c = "DistanceIMTTrellis"
    THEN (IF pt = "semilogy" THEN "semilogy" ELSE "loglog")
    ELSE (IF pt = "loglog" THEN "semilogx" ELSE "plot")

\* What a draw call does to the axis scales (matplotlib).
XScaleAfter(call, old) == IF call \in {"loglog", "semilogx"} THEN "log" ELSE old
YScaleAfter(call, old) == IF call \in {"loglog", "semilogy"} THEN "log" ELSE old

\* gmvs[name][i_m][0, :]
RowZero(table, name, im) ==
    IF name \notin DOMAIN table \/ im \notin DOMAIN table[name]
    THEN [err |-> "KeyError", y |-> <<>>]
    ELSE IF table[name][im].kind = "list"
    THEN [err |-> "TypeError", y |-> <<>>]
    ELSE IF Len(table[name][im].rows) = 0
    THEN [err |-> "IndexError", y |-> <<>>]
    ELSE [err |-> "none", y |-> table[name][im].rows[1]]

\* min_x = distance_vals[0] ; max_x = distance_vals[-1]
XLimits(distance_vals) == <<distance_vals[1], distance_vals[Len(distance_vals)]>>

\* 'SA(' in i_m
Contains(sub, s) ==
    \E p \in 1..(Len(s) - Len(sub) + 1) : SubSeq(s, p, p + Len(sub) - 1) = sub

\* _set_labels of either class, applied to axis a.
SetLabels(c, im, a) ==
    IF distance_type \notin DOMAIN DISTANCE_LABEL_MAP
    THEN [err |-> "KeyError", at |-> "set_xlabel", ax |-> a]
    ELSE LET a1 == [a EXCEPT !.xlabel = <<DISTANCE_LABEL_MAP[distance_type], "(km)">>] IN
         IF c = "DistanceSigmaIMTTrellis"
         THEN [err |-> "none", at |-> "none",
               ax |-> [a1 EXCEPT !.ylabel = <<stddevs, "Std. Dev.">>]]
         ELSE LET key == IF Contains(<<"S", "A", "(">>, im) THEN <<"S", "A">> ELSE im IN
              IF key \notin DOMAIN PLOT_UNITS
              THEN [err |-> "KeyError", at |-> "set_ylabel", ax |-> a1]
              ELSE [err |-> "none", at |-> "none",
                    ax |-> [a1 EXCEPT !.ylabel = <<"Median", im, PLOT_UNITS[key]>>]]

\* Lines 71-75 / 162-166: reset the lists, read the distances, check the scale.
BuildPlotBegin ==
    /\ pc = "returned"
    /\ bpc \in {"idle", "done", "raised"}
    /\ ncalls < MaxCalls
    /\ \E im \in {imts[n] : n \in 1..Len(imts)} : i_m' = im
    /\ ncalls' = ncalls + 1
    /\ ax' = NewAxes
    /\ labels' = ResetList(labels)
    /\ lines' = ResetList(lines)
    /\ bk' = 0
    /\ IF distance_type \notin DOMAIN dctx
       THEN bpc' = "raised" /\ bexc' = [type |-> "AttributeError", at |-> "getattr"]
       ELSE IF ~PlotTypeOK(plot_type)
       THEN bpc' = "raised" /\ bexc' = [type |-> "AssertionError", at |-> "assert"]
       ELSE bpc' = "loop" /\ bexc' = NoExc
    /\ UNCHANGED <<cls, fields, cvars>>

\* Lines 77-101 / 168-193: one pass of "for gmpe in self.gsims", or its end.
BuildPlotLoop ==
    /\ bpc = "loop"
    /\ IF bk < Len(gsims)
       THEN LET name == ClassName(gsims[bk + 1])
                distance_vals == dctx[distance_type]
                r == RowZero(gmvs, name, i_m)
                line == [call |-> DrawCall(cls, plot_type), x |-> distance_vals,
                         y |-> r.y, label |-> name]
                drawn == [ax EXCEPT !.lines = Append(@, line),
                                    !.xscale = XScaleAfter(line.call, @),
                                    !.yscale = YScaleAfter(line.call, @)]
            IN /\ labels' = Append(labels, name)
               /\ IF r.err # "none"
                  THEN /\ bpc' = "raised"
                       /\ bexc' = [type |-> r.err, at |-> "values"]
                       /\ UNCHANGED <<ax, lines, bk>>
                  ELSE IF Len(distance_vals) = 0
                  THEN /\ ax' = drawn
                       /\ bpc' = "raised"
                       /\ bexc' = [type |-> "IndexError", at |-> "xlim"]
                       /\ UNCHANGED <<lines, bk>>
                  ELSE LET limited == [drawn EXCEPT !.grid = TRUE,
                                                    !.xlim = XLimits(distance_vals)]
                           s == SetLabels(cls, i_m, limited)
                       IN /\ lines' = Append(lines, line)
                          /\ ax' = s.ax
                          /\ IF s.err # "none"
                             THEN /\ bpc' = "raised"
                                  /\ bexc' = [type |-> s.err, at |-> s.at]
                                  /\ UNCHANGED bk
                             ELSE /\ bk' = bk + 1
                                  /\ UNCHANGED <<bpc, bexc>>
       ELSE /\ bpc' = "done"
            /\ UNCHANGED <<ax, labels, lines, bk, bexc>>
    /\ UNCHANGED <<cls, i_m, ncalls, fields, cvars>>

NextPlot == BuildPlotBegin \/ BuildPlotLoop

(* --------------------------- specifications ---------------------------- *)
NoPlot ==
    /\ i_m = <<>> /\ ax = NewAxes /\ labels = <<>> /\ lines = <<>>
    /\ bk = 0 /\ bpc = "idle" /\ bexc = NoExc /\ ncalls = 0

StartGMV ==
    /\ gmvs = EmptyDict /\ gi = 0 /\ ii = 0 /\ ri = 0
    /\ pc = "gmpe_loop" /\ exc = NoExc /\ calls = <<>>

\* The collector alone, on an object whose plot configuration is the default.
InitGMV ==
    /\ gsims \in GsimLists
    /\ imts \in ImtLists
    /\ nrctx \in RctxCounts
    /\ nsites \in {0, 1, 2}
    /\ stddevs \in StdTypes
    /\ dctx = ("rjb" :> [j \in 1..nsites |-> j])
    /\ distance_type = "rjb"
    /\ plot_type = "loglog"
    /\ cls = "DistanceSigmaIMTTrellis"
    /\ StartGMV
    /\ NoPlot

SpecGMV == InitGMV /\ [][NextGMV]_vars

\* The tables get_ground_motion_values can return for the object's fields: under
\* each class name the entries of the last GMPE of that class, each either the
\* empty list or the full array of that GMPE's rows.
LastOfClass(name) ==
    gsims[CHOOSE n \in 1..Len(gsims) :
            /\ ClassName(gsims[n]) = name
            /\ \A m \in (n + 1)..Len(gsims) : ClassName(gsims[m]) # name]

FullEntry(g, im) ==
    [kind |-> "ndarray",
     rows |-> [k \in 1..nrctx |-> StoredRow(get_mean_and_stddevs(g, im, k, <<stddevs>>))],
     ncols |-> nsites]

ReturnedTables ==
    LET names == {ClassName(gsims[n]) : n \in 1..Len(gsims)}
        ims == {imts[n] : n \in 1..Len(imts)}
        unsupp == IF nrctx = 0 THEN {{}} ELSE SUBSET (names \X ims)
    IN {[name \in names |-> [im \in ims |->
            IF <<name, im>> \in U THEN EmptyList ELSE FullEntry(LastOfClass(name), im)]]
        : U \in unsupp}

\* The renderers alone, on an object whose table has been collected.  The evaluation
\* log belongs to the collector's run and is not carried along.  The table handed
\* to DistanceIMTTrellis._build_plot comes from the collector that class inherits;
\* it has the same form.
InitPlot ==
    /\ gsims \in GsimLists
    /\ imts \in ImtLists \ {<<>>}
    /\ nrctx \in RctxCounts
    /\ stddevs = "Total"
    /\ distance_type \in DistanceTypes
    /\ plot_type \in PlotTypes
    /\ \E d \in DistArrays :
          /\ nsites = Len(d)
          /\ dctx \in {<<>>, (distance_type :> d)}
    /\ cls \in Classes
    /\ gmvs \in ReturnedTables
    /\ gi = 0 /\ ii = 0 /\ ri = 0
    /\ pc = "returned" /\ exc = NoExc /\ calls = <<>>
    /\ NoPlot

SpecPlot == InitPlot /\ [][NextPlot]_vars

\* Collector, then renderer, on an object with a valid plot configuration.
Init ==
    /\ gsims \in GsimLists
    /\ imts \in ImtLists
    /\ nrctx \in RctxCounts
    /\ stddevs \in StdTypes
    /\ distance_type = "rjb"
    /\ plot_type \in {"loglog", "semilogy"}
    /\ nsites = 2
    /\ dctx = ("rjb" :> <<1, 2>>)
    /\ cls = "DistanceSigmaIMTTrellis"
    /\ StartGMV
    /\ NoPlot

Next == NextGMV \/ NextPlot

Spec == Init /\ [][Next]_vars
(* ------------------------- auxiliary notions --------------------------- *)
RecognizedMetrics == {"repi", "rhypo", "rjb", "rrup", "rx"}
ValidPlotTypes == {"loglog", "semilogy"}
Finished == bpc \in {"done", "raised"}

SeqMin(q) == CHOOSE v \in {q[n] : n \in 1..Len(q)} : \A n \in 1..Len(q) : v <= q[n]
SeqMax(q) == CHOOSE v \in {q[n] : n \in 1..Len(q)} : \A n \in 1..Len(q) : v >= q[n]

\* An evaluation that signalled "unsupported", and one that failed otherwise.
Unsupported(c) == c.parse = "KeyError" \/ c.eval = "KeyError"
Failed(c) == c.parse = "ValueError" \/ c.eval = "RuntimeError"

\* The standard-deviation row of kind self.stddevs for GMPE g, measure im, context k.
SigmaRow(g, im, k) == [j \in 1..nsites |-> LibValue(KindCode(stddevs), g, im, k, j)]

\* Position n of self.gsims is the last one holding a GMPE of its class.
LastOfItsClass(n) == \A m \in (n + 1)..Len(gsims) : ClassName(gsims[m]) # ClassName(gsims[n])

\* Lemma (SpecGMV, Spec): whatever the collector returns is one of ReturnedTables,
\* the tables the renderer specification starts from.
ReturnedTableKnown == pc = "returned" => gmvs \in ReturnedTables

(* ------------------------------- claims -------------------------------- *)

\* C1: a (GMPE, IM) pair whose evaluation signals "unsupported" (KeyError) at some
\* row does not make get_ground_motion_values raise; the returned table's entry for
\* that pair is the empty list, no further row of the pair is evaluated, and every
\* later IM and GMPE is still evaluated and stored.
C1_UnsupportedRecovered ==
    /\ ~(pc = "raised" /\ exc.type = "KeyError")
    /\ \A n \in 1..Len(calls) : Unsupported(calls[n]) =>
          /\ \A m \in (n + 1)..Len(calls) :
                ~(calls[m].gpos = calls[n].gpos /\ calls[m].ipos = calls[n].ipos)
          /\ pc = "returned" =>
                gmvs[ClassName(calls[n].gmpe)][calls[n].imt] = EmptyList
    /\ pc = "returned" =>
          \A g \in 1..Len(gsims), i \in 1..Len(imts) :
             /\ ClassName(gsims[g]) \in DOMAIN gmvs
             /\ imts[i] \in DOMAIN gmvs[ClassName(gsims[g])]
             /\ nrctx > 0 => \E n \in 1..Len(calls) :
                                calls[n].gpos = g /\ calls[n].ipos = i

\* Lemma (SpecGMV): C1 holds of every GMPE that is the last of its class in
\* self.gsims; it fails only where a later GMPE of the same class overwrites the entry.
C1_HoldsForLastOfClass ==
    /\ ~(pc = "raised" /\ exc.type = "KeyError")
    /\ \A n \in 1..Len(calls) : Unsupported(calls[n]) =>
          /\ \A m \in (n + 1)..Len(calls) :
                ~(calls[m].gpos = calls[n].gpos /\ calls[m].ipos = calls[n].ipos)
          /\ (pc = "returned" /\ LastOfItsClass(calls[n].gpos)) =>
                gmvs[ClassName(calls[n].gmpe)][calls[n].imt] = EmptyList

\* C3: at return, a (GMPE, IM) pair all of whose evaluations succeeded has an entry
\* of len(rctx) rows and nsites columns whose row k is the standard-deviation array
\* of the requested kind that this GMPE returned for rupture context k.
C3_SuccessfulPairStored ==
    pc = "returned" =>
       \A g \in 1..Len(gsims), i \in 1..Len(imts) :
          LET allok == \A k \in 1..nrctx : \E n \in 1..Len(calls) :
                          /\ calls[n].gpos = g /\ calls[n].ipos = i
                          /\ calls[n].iloc = k /\ calls[n].eval = "ok"
              e == gmvs[ClassName(gsims[g])][imts[i]]
          IN allok =>
                /\ e.kind = "ndarray"
                /\ Len(e.rows) = nrctx
                /\ e.ncols = nsites
                /\ \A k \in 1..nrctx : e.rows[k] = SigmaRow(gsims[g], imts[i], k)

\* Lemma (SpecGMV): C3 holds of every GMPE that is the last of its class.
C3_HoldsForLastOfClass ==
    pc = "returned" =>
       \A g \in 1..Len(gsims), i \in 1..Len(imts) :
          LET allok == \A k \in 1..nrctx : \E n \in 1..Len(calls) :
                          /\ calls[n].gpos = g /\ calls[n].ipos = i
                          /\ calls[n].iloc = k /\ calls[n].eval = "ok"
              e == gmvs[ClassName(gsims[g])][imts[i]]
          IN (allok /\ LastOfItsClass(g)) =>
                /\ e.kind = "ndarray"
                /\ Len(e.rows) = nrctx
                /\ e.ncols = nsites
                /\ \A k \in 1..nrctx : e.rows[k] = SigmaRow(gsims[g], imts[i], k)

\* C4: a failure of the parser or of the evaluation other than KeyError is not
\* caught: it is the last evaluation made, the call has ended with exactly that
\* failure at that pair and row, no table is returned and nothing more is evaluated.
C4_OtherFailurePropagates ==
    /\ \A n \in 1..Len(calls) : Failed(calls[n]) =>
          /\ n = Len(calls)
          /\ pc = "raised"
          /\ exc = (IF calls[n].parse = "ValueError"
                    THEN [type |-> "ValueError", at |-> "from_string"]
                    ELSE [type |-> "RuntimeError", at |-> "get_mean_and_stddevs"])
          /\ gi = calls[n].gpos /\ ii = calls[n].ipos /\ ri + 1 = calls[n].iloc
    /\ pc = "raised" =>
          /\ ~ENABLED NextGMV
          /\ Len(calls) > 0 /\ Failed(calls[Len(calls)])

C4_Witness ==
    /\ pc = "raised"
    /\ exc.type = "RuntimeError"
    /\ \E n \in 1..Len(calls) : Unsupported(calls[n])
    /\ calls[Len(calls)].gpos = 2

\* C2: when the entry of some GMPE for the plotted IM is the empty list, _build_plot
\* (either class) completes without raising, draws no line for that GMPE and draws
\* the lines of the GMPEs whose entries are arrays.  Stated for calls in which
\* nothing else can fail.
C2_EmptyEntrySkipped ==
    (/\ Finished
     /\ distance_type \in DOMAIN dctx
     /\ distance_type \in RecognizedMetrics
     /\ plot_type \in ValidPlotTypes
     /\ nrctx > 0 /\ nsites > 0
     /\ (cls = "DistanceIMTTrellis" => i_m \in {PGA, SA02})
     /\ \E k \in 1..Len(gsims) : gmvs[ClassName(gsims[k])][i_m] = EmptyList)
    => /\ bpc = "done"
       /\ Len(ax.lines) = Cardinality({k \in 1..Len(gsims) :
                                          gmvs[ClassName(gsims[k])][i_m] # EmptyList})
       /\ \A n \in 1..Len(ax.lines) : gmvs[ax.lines[n].label][i_m] # EmptyList

\* C5: the mean renderer draws every line with loglog (both axes logarithmic) for
\* 'loglog' and with semilogy (y only) for 'semilogy'; the standard-deviation renderer
\* draws with semilogx (x only) for 'loglog' and with plot (both linear) for
\* 'semilogy'; all lines of one call use the same draw variant.
C5_ScaleSelection ==
    LET call == CASE cls = "DistanceIMTTrellis" /\ plot_type = "loglog" -> "loglog"
                  [] cls = "DistanceIMTTrellis" /\ plot_type = "semilogy" -> "semilogy"
                  [] cls = "DistanceSigmaIMTTrellis" /\ plot_type = "loglog" -> "semilogx"
                  [] cls = "DistanceSigmaIMTTrellis" /\ plot_type = "semilogy" -> "plot"
                  [] OTHER -> "none"
        scales == CASE call = "loglog" -> <<"log", "log">>
                    [] call = "semilogy" -> <<"linear", "log">>
                    [] call = "semilogx" -> <<"log", "linear">>
                    [] OTHER -> <<"linear", "linear">>
    IN Len(ax.lines) > 0 =>
          /\ \A n \in 1..Len(ax.lines) : ax.lines[n].call = call
          /\ <<ax.xscale, ax.yscale>> = scales

C5_Witness ==
    /\ bpc = "done" /\ Len(ax.lines) = 2
    /\ cls = "DistanceSigmaIMTTrellis" /\ plot_type = "loglog"

\* C6 as claimed: for a plot_type other than 'loglog' and 'semilogy' every call of
\* _build_plot fails with an assertion failure before anything is drawn or set.
C6_Original ==
    (bpc # "idle" /\ plot_type \notin ValidPlotTypes) =>
       /\ bpc = "raised" /\ bexc.type = "AssertionError"
       /\ ax = NewAxes

\* C6 as amended: for such a plot_type every call fails before anything is drawn or
\* set on the axis: with the assertion failure when the distance context carries the
\* attribute named by distance_type, and with the attribute lookup's own failure,
\* which precedes the assertion, when it does not.
C6_FailsBeforeDrawing ==
    (bpc # "idle" /\ plot_type \notin ValidPlotTypes) =>
       /\ bpc = "raised"
       /\ bexc = (IF distance_type \in DOMAIN dctx
                  THEN [type |-> "AssertionError", at |-> "assert"]
                  ELSE [type |-> "AttributeError", at |-> "getattr"])
       /\ ax = NewAxes /\ labels = <<>> /\ lines = <<>>

C6_Witness ==
    /\ bpc = "raised" /\ bexc.type = "AssertionError"
    /\ plot_type = "linear" /\ gsims # <<>> /\ ncalls = 2

C8_XLimitsAreMinMax ==
    (bpc = "done" /\ Len(gsims) >= 1) =>
       ax.xlim = <<SeqMin(dctx[distance_type]), SeqMax(dctx[distance_type])>>

\* C9: _build_plot changes no field of the component other than labels and lines;
\* every call starts from empty lists; a call that returns leaves one label and one
\* line handle per GMPE, in GMPE order, labels[k] being the class name of the k-th
\* GMPE; a call that fails between appending a label and appending the line handle
\* leaves one more label than line handles.
C9_ListsReflectLastCall ==
    [][/\ UNCHANGED fields
       /\ ncalls' # ncalls => (Len(labels') = 0 /\ Len(lines') = 0)
       /\ bpc' = "done" =>
             /\ labels' = [k \in 1..Len(gsims) |-> ClassName(gsims[k])]
             /\ Len(lines') = Len(gsims)
             /\ \A k \in 1..Len(gsims) : lines'[k].label = ClassName(gsims[k])
       /\ (bpc' = "raised" /\ bexc'.at \in {"values", "xlim"}) =>
             /\ Len(labels') = Len(lines') + 1
             /\ Len(labels') = bk' + 1]_vars

C9_Witness ==
    /\ ncalls = 2 /\ bpc = "raised" /\ bexc.at = "values"
    /\ Len(labels) = 2 /\ Len(lines) = 1

\* C10: each line of a completed call plots row 0 of the values computed for that
\* same GMPE, and the table has one entry per GMPE, also when two GMPEs of the
\* selected set have the same class name.
C10_LinePlotsOwnValues ==
    bpc = "done" =>
       /\ Cardinality(DOMAIN gmvs) = Cardinality({gsims[k] : k \in 1..Len(gsims)})
       /\ \A k \in 1..Len(gsims) : ax.lines[k].y = SigmaRow(gsims[k], i_m, 1)

\* Lemma (Spec): what the code does instead: the k-th line plots row 0 of the last
\* GMPE of the k-th GMPE's class.
C10_LinePlotsLastOfClass ==
    bpc = "done" =>
       \A k \in 1..Len(gsims) :
          ax.lines[k].y = SigmaRow(LastOfClass(ClassName(gsims[k])), i_m, 1)
====
